---- MODULE Spec2Model ----
(***************************************************************************)
(* Heat-pulse flow measurement of the wx-flow firmware                     *)
(* (src/hardware/wx-flow/firmware/heat_pulse.h, config.h).                 *)
(*                                                                         *)
(* Units.                                                                  *)
(*   temperatures, baselines and rises  floats, each carried as the whole  *)
(*                                      number its 32 bits spell (below)   *)
(*   times                              milliseconds      (0.5 s  = 500)   *)
(*   velocity                           a float, carried as the rises are  *)
(*   direction                          the nearest whole degree           *)
(*   the millisecond clock              32 bits, as <<high, low>> halves   *)
(* The thermistor readings of a whole cycle are the floats                 *)
(* thermistor_temp returns for a handful of ADC counts; sums, means,       *)
(* rises, the weighted sums of the direction and the velocity are computed *)
(* in IEEE 754 single precision, bit for bit.  The result of               *)
(* thermistor_temp over all counts (SpecTherm) is computed in              *)
(* milli-degrees C.                                                        *)
(***************************************************************************)
EXTENDS Integers, Sequences, FiniteSets, TLC

VARIABLES pc,        \* position in run_heat_pulse
          clock,     \* millis(), a 32-bit counter
          heater,    \* level of PIN_HEATER
          i,         \* baseline loop counter
          baseline,  \* float baseline[4]
          start_ms,  \* unsigned long start_ms
          peak_dt,   \* float peak_dt[4]
          peak_time, \* float peak_time[4]
          max_idx,   \* int max_idx
          result,    \* FlowResult result
          samples,   \* history: the monitoring samples taken, oldest first
          off_ms,    \* history: millis() when PIN_HEATER was driven LOW
          on_ms,     \* history: millis() when PIN_HEATER was driven HIGH
          therm,     \* one call of thermistor_temp: position, raw, result
          reads,     \* history: the baseline readings taken (count, sum, range)
          trace      \* history: the hardware events of the cycle, oldest first

vars == <<pc, clock, heater, i, baseline, start_ms, peak_dt, peak_time,
          max_idx, result, samples, off_ms, on_ms, therm,
          reads, trace>>

(***************************************************************************)
(* Program constants                                                       *)
(***************************************************************************)
CH_THERM_N == 0
CH_THERM_E == 1
CH_THERM_S == 2
CH_THERM_W == 3
Chan == {CH_THERM_N, CH_THERM_E, CH_THERM_S, CH_THERM_W}

HEATER_POWER_MS  == 4000
HEATER_SETTLE_MS == 500
FLOW_SAMPLE_MS   == 100
FLOW_CAL_K       == 900
BASELINE_READS   == 10     \* for (int i = 0; i < 10; i++)
BASELINE_DELAY_MS == 50    \* delay(50)
STAGNANT_DT      == 1028443341       \* 0.05f
PEAK_TIME_FLOOR  == 500    \* 0.5f seconds, in milliseconds
SENTINEL         == 0 - 1148829696   \* -999.0f

(***************************************************************************)
(* Bounds of the model                                                     *)
(***************************************************************************)
\* The monitoring window.  config.h sets 60000 ms (600 samples); the model
\* checks a window of five sample periods.
FLOW_MONITOR_MS == 500
\* How long a slow four-channel read blocks, in ms.
SlowReadMs == 300
\* Cap on the recorded sample history (never reached by the code as written).
MaxSamples == 6

Zero4 == [j \in Chan |-> 0]
Uninit == "uninit"   \* a field of `result` that has not been assigned yet

Abs(x) == IF x < 0 THEN 0 - x ELSE x

(***************************************************************************)
(* unsigned long: 32-bit arithmetic on <<high 16 bits, low 16 bits>>       *)
(***************************************************************************)
Half == 2 ^ 16

U32Add(c, d) ==
    LET lo == c[2] + d
    IN  <<(c[1] + (lo \div Half)) % Half, lo % Half>>

U32Sub(a, b) ==
    LET lo     == a[2] - b[2]
        borrow == IF lo < 0 THEN 1 ELSE 0
    IN  <<(a[1] - b[1] - borrow + Half) % Half, (lo + Half) % Half>>

\* a < n for an int constant n below 2^31
U32Less(a, n) == a[1] < 32768 /\ a[1] * Half + a[2] < n

\* the value of a 32-bit quantity below 2^31
U32Val(a) == a[1] * Half + a[2]

\* delay(ms): blocks for ms milliseconds
DelayStuck(c, ms) == c
Delay(c, ms) == U32Add(c, ms)

(***************************************************************************)
(* read_all_thermistors: what one four-channel read can return, and how    *)
(* long it blocks.  Index j is the C array index (N, E, S, W).             *)
(***************************************************************************)
Reading(n, e, s, w, ms) ==
    [t |-> [j \in Chan |-> CASE j = CH_THERM_N -> n [] j = CH_THERM_E -> e
                             [] j = CH_THERM_S -> s [] OTHER -> w],
     ms |-> ms]

\* The float thermistor_temp returns for the ADC counts the model reads
\* (lines 32-47 in single precision): 0 counts, an open divider, give the
\* sentinel; 14189 counts are 21.6592407 C and 14040 counts 22.1592407 C,
\* exactly 0.5 C more; 5742 counts are 56.8948669 C.
TempOfCount(raw) ==
    CASE raw = 0     -> SENTINEL
      [] raw = 1     -> 1149085850   \* 1014.6344
      [] raw = 5737  -> 1113830344   \* 56.9255676
      [] raw = 5739  -> 1113827128   \* 56.9132996
      [] raw = 5742  -> 1113822296   \* 56.8948669
      [] raw = 14003 -> 1102202032   \* 22.2835388
      [] raw = 14040 -> 1102136864   \* 22.1592407
      [] raw = 14114 -> 1102006608   \* 21.9107971
      [] raw = 14115 -> 1102004848   \* 21.9074402
      [] raw = 14152 -> 1101939776   \* 21.7833252
      [] raw = 14189 -> 1101874720   \* 21.6592407
      [] raw = 14190 -> 1101872960   \* 21.6558838
      [] raw = 14217 -> 1101825504   \* 21.5653687
      [] raw = 14226 -> 1101809696   \* 21.5352173
      [] raw = 14227 -> 1101807936   \* 21.5318604
      [] raw = 22532 -> 0 - 1092618304 \* -10.0020142

\* the reading for the four counts n, e, s, w
ReadCounts(n, e, s, w, ms) ==
    Reading(TempOfCount(n), TempOfCount(e), TempOfCount(s), TempOfCount(w), ms)

\* Before the heater fires the probe is at ambient temperature (N and W
\* read 21.66 C, E 0.12 C more and S 0.13 C less); a channel whose divider
\* is open reads the sentinel.
BaselineReadings ==
    { ReadCounts(14189, 14152, 14227, 14189, 0),
      ReadCounts(14189, 14152, 14227, 0, SlowReadMs) }

\* After the pulse: rises of 0 .. 0.5 C over ambient, readings below the
\* baseline, and sentinel readings.
MonitorReadings ==
    { ReadCounts(14189, 14152, 14217, 14189, 0),
      ReadCounts(14114, 14003, 14190, 14226, 0),
      ReadCounts(14040, 14115, 14152, 0, 0),
      ReadCounts(14152, 14115, 14227, 14040, SlowReadMs) }

\* millis() when the cycle starts: just after boot, and 5.2 s before the
\* counter wraps (so that it wraps inside the monitoring window).
StartClocks == { <<0, 0>>, <<65535, 60336>> }
(***************************************************************************)
(* float.  A float is carried as the whole number that its 32 bits spell   *)
(* when the sign bit is read as a sign:                                    *)
(*     key = sign * (exponent field * 2^23 + fraction field),              *)
(* so that 0.0f is 0, 0.5f is 126 * 2^23, 1.0f is 127 * 2^23, and the      *)
(* keys are ordered as the floats are.  The float with the key k # 0 is    *)
(*     sign * FloatMant(k) * 2^(FloatExp(k) - 150).                        *)
(* A sum, a product and a quotient are rounded to 24 significant bits,     *)
(* ties to even, each on its own; a * b + c in one expression is either    *)
(* that (FloatAdd of FloatMul) or, where the build contracts it to a fused *)
(* multiply-add, the exact a * b + c rounded once (FloatFma).  Subnormals, *)
(* infinities and NaN do not occur: magnitudes other than 0 lie between    *)
(* 2^-100 and 2^100.                                                       *)
(***************************************************************************)
RECURSIVE Log2Floor(_, _)
\* the largest k with 2^k <= n, for n from 1 to 2^31 - 1
Log2Floor(n, k) == IF k < 30 /\ 2 ^ (k + 1) <= n THEN Log2Floor(n, k + 1) ELSE k

\* the 24-bit significand and the exponent field of a float other than 0
FloatMant(f) == 2 ^ 23 + (Abs(f) % 2 ^ 23)
FloatExp(f) == Abs(f) \div (2 ^ 23)

\* the key of the float nearest to a positive number: the number is
\* m * 2^(x - 150) for a whole m from 1 to 2^31 - 1 if st = 0, and lies
\* strictly between that and (m + 1) * 2^(x - 150) if st = 1 (then
\* m >= 2^26)
\* (L is the position of the leading bit of m)
RoundAt(m, L, x, st) ==
    LET sh == L - 23
        q  == m \div (2 ^ sh)
        r  == m % (2 ^ sh)
        h  == 2 ^ (sh - 1)
        up == IF r > h \/ (r = h /\ (st = 1 \/ (q % 2) = 1)) THEN 1 ELSE 0
    IN  IF L <= 23
        THEN (x - (23 - L) - 1) * 2 ^ 23 + m * 2 ^ (23 - L)
        ELSE (x + sh - 1) * 2 ^ 23 + q + up
\* (m and L are worked out once, as p)
RoundPack(m, x, st) ==
    CHOOSE k \in {RoundAt(p[1], p[2], x, st) :
                     p \in {<<v, Log2Floor(v, IF v >= 2 ^ 26 THEN 26 ELSE 0)>> :
                               v \in {m}}} : TRUE

\* big + small in float, for floats other than 0 with |big| >= |small|:
\* the significands with six more bits, the smaller one shifted into place
FloatAddOrdered(big, small) ==
    LET d  == FloatExp(big) - FloatExp(small)
        mb == FloatMant(big) * 64
        ms == FloatMant(small) * 64
        q  == IF d > 30 THEN 0 ELSE ms \div (2 ^ d)
        st == IF d > 30 THEN 1 ELSE IF (ms % (2 ^ d)) # 0 THEN 1 ELSE 0
        m  == IF (big < 0) = (small < 0) THEN mb + q ELSE mb - q - st
    IN  IF m = 0 THEN 0
        ELSE IF big < 0 THEN 0 - RoundPack(m, FloatExp(big) - 6, st)
        ELSE RoundPack(m, FloatExp(big) - 6, st)

\* a + b in float
FloatAdd(a, b) ==
    IF a = 0 THEN b
    ELSE IF b = 0 THEN a
    ELSE IF Abs(a) >= Abs(b) THEN FloatAddOrdered(a, b)
    ELSE FloatAddOrdered(b, a)

\* a * b in float: the 48-bit product of the significands from their
\* 12-bit halves, its top 30 bits kept and the rest remembered as st
FloatMul(a, b) ==
    IF a = 0 \/ b = 0 THEN 0
    ELSE LET ah == FloatMant(a) \div 4096
             al == FloatMant(a) % 4096
             bh == FloatMant(b) \div 4096
             bl == FloatMant(b) % 4096
             lo == al * bl
             s1 == ah * bl + al * bh + (lo \div 4096)
             m  == (ah * bh + (s1 \div 4096)) * 64 + ((s1 % 4096) \div 64)
             st == IF ((s1 % 4096) % 64) # 0 \/ (lo % 4096) # 0 THEN 1 ELSE 0
             k  == RoundPack(m, FloatExp(a) + FloatExp(b) - 132, st)
         IN  IF (a < 0) = (b < 0) THEN k ELSE 0 - k

\* s / d in float, for a whole number d from 1 to 16
FloatDiv(s, d) ==
    IF s = 0 THEN 0
    ELSE LET n == FloatMant(s) * 128
             k == RoundPack(n \div d, FloatExp(s) - 7, IF (n % d) # 0 THEN 1 ELSE 0)
         IN  IF s < 0 THEN 0 - k ELSE k

\* n more binary places (n <= 7) of a quotient by d < 2^24: from <<q, r>>,
\* the quotient so far and the remainder r < d, to the next <<q, r>>
\* (qr is worked out once, as v)
DivPlaces(qr, d, n) ==
    CHOOSE r \in {<<v[1] * 2 ^ n + (v[2] * 2 ^ n) \div d, (v[2] * 2 ^ n) % d>> :
                    v \in {qr}} : TRUE

\* <<floor(ma * 2^27 / mb), the remainder>> for the significands ma, mb
MantQuot(ma, mb) ==
    DivPlaces(DivPlaces(DivPlaces(DivPlaces(<<ma \div mb, ma % mb>>, mb, 7),
                                  mb, 7), mb, 7), mb, 6)

\* a / b in float, for b other than 0: the quotient of the significands to
\* 27 binary places, the remainder remembered as st
FloatQuotOf(a, b) ==
    IF a = 0 THEN 0
    ELSE LET k == CHOOSE r \in
                      {RoundPack(qr[1], FloatExp(a) - FloatExp(b) + 123,
                                 IF qr[2] # 0 THEN 1 ELSE 0) :
                          qr \in {MantQuot(FloatMant(a), FloatMant(b))}} : TRUE
         IN  IF (a < 0) = (b < 0) THEN k ELSE 0 - k
\* (a and b are worked out once, as v)
FloatQuot(a, b) == CHOOSE k \in {FloatQuotOf(v[1], v[2]) : v \in {<<a, b>>}} : TRUE

\* A whole number below 2^96 is four 24-bit words, the lowest first.
Word == 2 ^ 24

\* a[k] for k from 1 to 3, else 0
WordAt(a, k) == IF k \in 1..3 THEN a[k] ELSE 0

\* (hi * 2^24 + lo) * 2^(24 * w) * up, for the words hi and lo, up a power
\* of 2 below 2^24 and cut = 2^24 / up, the product below 2^96
\* (the three words of (hi * 2^24 + lo) * up are worked out once, as a)
WordsShlAt(hi, lo, w, up, cut) ==
    CHOOSE n \in
        {<<WordAt(a, 1 - w), WordAt(a, 2 - w), WordAt(a, 3 - w), WordAt(a, 4 - w)>> :
            a \in {<<(lo % cut) * up, lo \div cut + (hi % cut) * up, hi \div cut>>}} :
        TRUE

\* (hi * 2^24 + lo) * 2^s
WordsShl(hi, lo, s) ==
    WordsShlAt(hi, lo, s \div 24, 2 ^ (s % 24), 2 ^ (24 - (s % 24)))

\* the lowest four words of a + b + c
WordsSum(a, b, c) ==
    LET s1 == a[1] + b[1] + c
        s2 == a[2] + b[2] + s1 \div Word
        s3 == a[3] + b[3] + s2 \div Word
        s4 == a[4] + b[4] + s3 \div Word
    IN  <<s1 % Word, s2 % Word, s3 % Word, s4 % Word>>

\* a - b, for a >= b: a plus what b lacks of 2^96, plus 1, less 2^96
WordsDiff(a, b) ==
    WordsSum(a, <<Word - 1 - b[1], Word - 1 - b[2], Word - 1 - b[3],
                  Word - 1 - b[4]>>, 1)

\* a < b
WordsLess(a, b) ==
    IF a[4] # b[4] THEN a[4] < b[4]
    ELSE IF a[3] # b[3] THEN a[3] < b[3]
    ELSE IF a[2] # b[2] THEN a[2] < b[2]
    ELSE a[1] < b[1]

\* the number of bits of n, for n other than 0
WordsBits(n) ==
    IF n[4] # 0 THEN 72 + Log2Floor(n[4], 0) + 1
    ELSE IF n[3] # 0 THEN 48 + Log2Floor(n[3], 0) + 1
    ELSE IF n[2] # 0 THEN 24 + Log2Floor(n[2], 0) + 1
    ELSE Log2Floor(n[1], 0) + 1

\* n[k] * 2^e, where that is below 2^31
WordUp(n, k, e) == IF k > 4 THEN 0 ELSE IF n[k] = 0 THEN 0 ELSE n[k] * 2 ^ e

\* <<m, d, st>> for d = 24 * u + v, v < 24: m = floor(n / 2^d), below 2^31,
\* and st = 1 if the d bits dropped are not all 0, else 0
WordsTopAt(n, u, v) ==
    <<n[u + 1] \div (2 ^ v) + WordUp(n, u + 2, 24 - v) + WordUp(n, u + 3, 48 - v),
      24 * u + v,
      IF (n[u + 1] % (2 ^ v)) # 0 \/ (\E k \in 1..u : n[k] # 0) THEN 1 ELSE 0>>

\* <<m, d, st>> with the leading 30 bits of n as m (all of n and d = 0 if
\* n has no more), for n other than 0
\* (the number of bits of n is worked out once, as bits)
WordsTop(n) ==
    CHOOSE t \in
        {IF bits > 30 THEN WordsTopAt(n, (bits - 30) \div 24, (bits - 30) % 24)
         ELSE WordsTopAt(n, 0, 0) : bits \in {WordsBits(n)}} : TRUE

\* the float nearest to n * 2^(x - 150), for n other than 0
\* (the leading bits of n are worked out once, as t)
WordsPack(n, x) ==
    CHOOSE k \in {RoundPack(t[1], x + t[2], t[3]) : t \in {WordsTop(n)}} : TRUE

\* the 48-bit product of the significands of a and b, as <<high word, low
\* word>>, from their 12-bit halves
\* (the three partial products are worked out once, as t)
MantProduct(a, b) ==
    CHOOSE P \in
        {<<t[3] + t[2] \div 4096 + (t[1] + (t[2] % 4096) * 4096) \div Word,
           (t[1] + (t[2] % 4096) * 4096) % Word>> :
            t \in {<<(FloatMant(a) % 4096) * (FloatMant(b) % 4096),
                     (FloatMant(a) \div 4096) * (FloatMant(b) % 4096)
                         + (FloatMant(a) % 4096) * (FloatMant(b) \div 4096),
                     (FloatMant(a) \div 4096) * (FloatMant(b) \div 4096)>>}} : TRUE

\* np + nc, or their difference, for np and nc that stand with the signs
\* sp, sc (TRUE is minus)
FmaSum(np, sp, nc, sc) ==
    IF sp = sc THEN WordsSum(np, nc, 0)
    ELSE IF WordsLess(np, nc) THEN WordsDiff(nc, np) ELSE WordsDiff(np, nc)

\* the float nearest to np * 2^(x - 150) and nc * 2^(x - 150) taken
\* together with their signs, for np, nc other than 0
\* (the sum is worked out once, as n)
FmaRound(np, sp, nc, sc, x) ==
    LET k == CHOOSE r \in {IF n = <<0, 0, 0, 0>> THEN 0 ELSE WordsPack(n, x) :
                              n \in {FmaSum(np, sp, nc, sc)}} : TRUE
    IN  IF (IF sp = sc THEN sp ELSE IF WordsLess(np, nc) THEN sc ELSE sp)
        THEN 0 - k ELSE k

\* a * b + c rounded once, for floats other than 0: the product is
\* P * 2^(xp - 150) with the 48-bit P = <<high word, low word>>, c is
\* C * 2^(xc - 150) with the 24-bit C.  Where the one lies wholly 3 bits or
\* more below the last bit of the other, it only decides the direction of
\* rounding and stands as one unit, 4 bits below that last bit.
\* (the two numbers are brought to one exponent once, as v)
FmaAligned(P, sp, xp, C, sc, xc) ==
    CHOOSE k \in
        {FmaRound(v[1], sp, v[2], sc, v[3]) :
            v \in {IF xp - xc > 26
                   THEN <<WordsShl(P[1], P[2], 4), <<1, 0, 0, 0>>, xp - 4>>
                   ELSE IF xc - xp > 50
                   THEN <<<<1, 0, 0, 0>>, WordsShl(0, C, 4), xc - 4>>
                   ELSE IF xp >= xc
                   THEN <<WordsShl(P[1], P[2], xp - xc), <<C, 0, 0, 0>>, xc>>
                   ELSE <<<<P[2], P[1], 0, 0>>, WordsShl(0, C, xc - xp), xp>>}} : TRUE

\* fmaf(a, b, c): a * b + c with the product kept exact and the sum rounded
\* once (the product by a power of 2 is exact as a float)
FloatFma(a, b, c) ==
    IF a = 0 \/ b = 0 THEN c
    ELSE IF c = 0 THEN FloatMul(a, b)
    ELSE IF FloatMant(a) = 2 ^ 23 \/ FloatMant(b) = 2 ^ 23
    THEN CHOOSE k \in {FloatAdd(p, c) : p \in {FloatMul(a, b)}} : TRUE
    ELSE CHOOSE k \in
             {FmaAligned(P, (a < 0) # (b < 0), FloatExp(a) + FloatExp(b) - 150,
                         FloatMant(c), c < 0, FloatExp(c)) :
                 P \in {MantProduct(a, b)}} : TRUE

\* the float f in units of 2^-p, rounded towards 0
Units(f, p) ==
    LET e == FloatExp(f) - 150 + p
        m == IF e >= 0 THEN FloatMant(f) * (2 ^ e) ELSE FloatMant(f) \div (2 ^ (0 - e))
    IN  IF f = 0 THEN 0 ELSE IF f < 0 THEN 0 - m ELSE m

\* (float) n for a whole number n of fewer than 25 bits
IntFloat(n) ==
    IF n = 0 THEN 0
    ELSE IF n < 0 THEN 0 - RoundPack(0 - n, 150, 0)
    ELSE RoundPack(n, 150, 0)

(***************************************************************************)
(* thermistor_temp: raw ADC count -> degrees C, here in milli-degrees.     *)
(*                                                                         *)
(* voltage = raw * 0.000125f and 3.3f - voltage are computed in float, so  *)
(* that 26400 counts (3.3 V) become the float just above 3.3f.  The        *)
(* logarithm is taken from a table of ln(1 + k/128) with linear            *)
(* interpolation; the result lies within 2 milli-degrees of the float      *)
(* computation for every count.                                            *)
(***************************************************************************)
THERM_NOMINAL_R == 10000
THERM_NOMINAL_T == 25
THERM_B_COEFF   == 3950
THERM_SERIES_R  == 10000
VOLT_PER_COUNT  == 956502639  \* 0.000125f (8589935 * 2^-36)
VREF            == 1079194419 \* 3.3f (13841203 * 2^-22)
ABS_ZERO        == 0 - 273150 \* -273.15f, in milli-degrees
NotANumber      == "nan"

\* int16_t raw
RawCounts == (0 - 2 ^ 15)..(2 ^ 15 - 1)

\* float voltage = raw * 0.000125f;
Voltage(raw) == FloatMul(IntFloat(raw), VOLT_PER_COUNT)

\* 3.3f - voltage
Divider(raw) == FloatAdd(VREF, 0 - Voltage(raw))

\* floor(1e6 * ln(1 + k/128)), k = 0..128
LnTab ==
    <<0, 7782, 15504, 23167, 30771, 38318, 45809, 53244, 60624, 67950,
      75223, 82443, 89612, 96729, 103796, 110814, 117783, 124703, 131576, 138402,
      145182, 151916, 158605, 165249, 171850, 178407, 184922, 191394, 197825, 204215,
      210564, 216873, 223143, 229374, 235566, 241719, 247836, 253915, 259957, 265963,
      271933, 277868, 283768, 289633, 295464, 301261, 307025, 312755, 318453, 324119,
      329753, 335355, 340926, 346466, 351976, 357455, 362905, 368325, 373716, 379078,
      384411, 389716, 394993, 400243, 405465, 410659, 415827, 420969, 426084, 431173,
      436236, 441274, 446287, 451274, 456237, 461175, 466089, 470979, 475845, 480688,
      485507, 490303, 495077, 499827, 504556, 509261, 513945, 518607, 523248, 527867,
      532464, 537041, 541597, 546132, 550647, 555141, 559615, 564070, 568504, 572919,
      577315, 581691, 586049, 590387, 594707, 599008, 603290, 607555, 611801, 616029,
      620240, 624433, 628608, 632766, 636907, 641031, 645137, 649227, 653301, 657358,
      661398, 665422, 669430, 673422, 677398, 681359, 685304, 689233, 693147>>

\* logf(n) for an integer n >= 1, in units of 1e-6
LnMicro(n) ==
    LET k   == Log2Floor(n, 0)
        sh  == IF k >= 7 THEN 2 ^ (k - 7) ELSE 1
        idx == IF k >= 7 THEN n \div sh - 128 ELSE n * 2 ^ (7 - k) - 128
        fr  == IF k >= 7 THEN n % sh ELSE 0
    IN  k * LnTab[129] + LnTab[idx + 1]
          + ((LnTab[idx + 2 - (IF idx = 128 THEN 1 ELSE 0)] - LnTab[idx + 1]) * fr) \div sh

RECURSIVE Scaled(_, _, _)
\* floor(a * 10^d / b), for a >= 0, b > 0
Scaled(a, b, d) ==
    IF d = 0 THEN a \div b
    ELSE (a \div b) * 10 ^ d + Scaled((a % b) * 10, b, d - 1)

\* if (r_therm <= 0), for r_therm = THERM_SERIES_R * voltage / (3.3f - voltage):
\* v and d are the voltage and 3.3f - voltage; x / 0 is an infinity for
\* x # 0 and not a number for x = 0, and a NaN is not <= 0
RThermNegative(v, d) ==
    IF d = 0 THEN v < 0 ELSE (v < 0 /\ d > 0) \/ (v > 0 /\ d < 0)
RThermNotPositive(v, d) ==
    IF d = 0 THEN v < 0 ELSE v = 0 \/ (v < 0 /\ d > 0) \/ (v > 0 /\ d < 0)

\* lines 41-45 for a positive finite r_therm, with a the count and d the
\* float 3.3f - voltage in units of 2^-22 V
SteinhartTemp(a, d) ==
    LET lnr   == LnMicro(a) + LnMicro(FloatMant(VOLT_PER_COUNT)) - 14 * LnTab[129]
                   - LnMicro(d)
                   + LnMicro(THERM_SERIES_R) - LnMicro(THERM_NOMINAL_R)
        byB   == (lnr \div THERM_B_COEFF) * 1000
                   + ((lnr % THERM_B_COEFF) * 1000) \div THERM_B_COEFF
        invT0 == Scaled(1000000000, THERM_NOMINAL_T * 100 + 27315, 2)
    IN  Scaled(1000000000, byB + invT0, 3) + ABS_ZERO

\* what the function returns (milli-degrees; -999000 is the sentinel
\* -999.0f) and how many times it called logf
thermistor_temp(raw) ==
    LET v == Voltage(raw)
        d == Divider(raw)
    IN  IF RThermNotPositive(v, d)
        THEN [temp_c |-> 0 - 999000, logf_calls |-> 0]
        ELSE [temp_c |-> CASE v = 0 \/ d = 0 -> ABS_ZERO    \* logf gives an infinity
                           [] v < 0 \/ d < 0 -> NotANumber
                           [] OTHER -> SteinhartTemp(raw, Units(d, 22)),
              logf_calls |-> 1]

ThermIdle == [pc |-> "idle", raw |-> 0, temp_c |-> Uninit, logf_calls |-> 0]

\* the history after one more reading r: how many readings, their exact
\* sum and the exact sum of their magnitudes per channel in units of
\* 2^-15 C (thermistor_temp returns whole numbers of them from -17 C up,
\* and for the sentinel), and the lowest and the highest reading of each
\* channel
NoReads == [n |-> 0, sum |-> Zero4, mag |-> Zero4, lo |-> Zero4, hi |-> Zero4]
Noted(h, r) ==
    [n   |-> h.n + 1,
     sum |-> [j \in Chan |-> h.sum[j] + Units(r.t[j], 15)],
     mag |-> [j \in Chan |-> h.mag[j] + Abs(Units(r.t[j], 15))],
     lo  |-> [j \in Chan |-> IF h.n = 0 \/ r.t[j] < h.lo[j] THEN r.t[j] ELSE h.lo[j]],
     hi  |-> [j \in Chan |-> IF h.n = 0 \/ r.t[j] > h.hi[j] THEN r.t[j] ELSE h.hi[j]]]

(***************************************************************************)
(* The state after `FlowResult result; result.valid = false;` and the      *)
(* initialisation of baseline[] and i.                                     *)
(***************************************************************************)
ResultInit ==
    [velocity_cm_day |-> Uninit, direction_deg |-> Uninit,
     peak_temps |-> Uninit, peak_times |-> Uninit, valid |-> FALSE]

Init ==
    /\ pc = "baseline"
    /\ clock \in StartClocks
    /\ heater = "LOW"
    /\ i = 0
    /\ baseline = Zero4
    /\ start_ms = <<0, 0>>
    /\ peak_dt = Zero4
    /\ peak_time = Zero4
    /\ max_idx = 0
    /\ result = ResultInit
    /\ samples = <<>>
    /\ off_ms = <<0, 0>>
    /\ on_ms = <<0, 0>>
    /\ therm = ThermIdle
    /\ reads = NoReads
    /\ trace = <<>>

(***************************************************************************)
(* Step 1: baseline                                                        *)
(***************************************************************************)
\* for (int i = 0; i < 10; i++)
MoreBaselineShort(k) == k < BASELINE_READS - 1
MoreBaseline(k) == k < BASELINE_READS

\* baseline[j] += t[j]
AccumulateFirst(sum, r, j) == FloatAdd(sum[j], r.t[CH_THERM_N])
Accumulate(sum, r, j) == FloatAdd(sum[j], r.t[j])

\* one iteration of the loop with the reading r: read, accumulate, delay(50)
BaselineStep(r) ==
    /\ pc = "baseline"
    /\ MoreBaseline(i)
    /\ baseline' = [j \in Chan |-> Accumulate(baseline, r, j)]
    /\ clock' = Delay(U32Add(clock, r.ms), BASELINE_DELAY_MS)
    /\ i' = i + 1
    /\ reads' = Noted(reads, r)
    /\ trace' = Append(trace, "baseline_read")
    /\ UNCHANGED <<pc, heater, start_ms, off_ms, on_ms, therm, peak_dt,
                   peak_time, max_idx, result, samples>>

BaselineRead == \E r \in BaselineReadings : BaselineStep(r)

\* for (j) baseline[j] /= 10.0f
BaselineMean(sum) == [j \in Chan |-> FloatDiv(sum[j], BASELINE_READS)]

BaselineDone ==
    /\ pc = "baseline"
    /\ ~MoreBaseline(i)
    /\ baseline' = BaselineMean(baseline)
    /\ pc' = "heater_on"
    /\ UNCHANGED <<clock, heater, i, start_ms, off_ms, on_ms, therm, reads,
                   peak_dt, peak_time, max_idx, result, samples, trace>>

(***************************************************************************)
(* Step 2: fire the heater                                                 *)
(***************************************************************************)
\* digitalWrite(PIN_HEATER, level): the level the pin is left at
DigitalWriteStuckHigh(level) == "HIGH"
DigitalWrite(level) == level

HeaterOn ==
    /\ pc = "heater_on"
    /\ heater' = DigitalWrite("HIGH")
    /\ on_ms' = clock
    /\ trace' = Append(trace, "heater_high")
    /\ pc' = "heating"
    /\ UNCHANGED <<clock, i, baseline, start_ms, off_ms, therm, reads, peak_dt,
                   peak_time, max_idx, result, samples>>

HeaterHold ==
    /\ pc = "heating"
    /\ clock' = Delay(clock, HEATER_POWER_MS)
    /\ pc' = "heater_off"
    /\ UNCHANGED <<heater, i, baseline, start_ms, off_ms, on_ms, therm, reads,
                   peak_dt, peak_time, max_idx, result, samples, trace>>

HeaterOff ==
    /\ pc = "heater_off"
    /\ heater' = DigitalWrite("LOW")
    /\ off_ms' = clock
    /\ trace' = Append(trace, "heater_low")
    /\ pc' = "settle"
    /\ UNCHANGED <<clock, i, baseline, start_ms, on_ms, therm, reads, peak_dt,
                   peak_time, max_idx, result, samples>>

Settle ==
    /\ pc = "settle"
    /\ clock' = Delay(clock, HEATER_SETTLE_MS)
    /\ trace' = Append(trace, "settle_done")
    /\ pc' = "monitor_init"
    /\ UNCHANGED <<heater, i, baseline, start_ms, off_ms, on_ms, therm, reads,
                   peak_dt, peak_time, max_idx, result, samples>>

(***************************************************************************)
(* Step 3: monitor                                                         *)
(***************************************************************************)
MonitorStart ==
    /\ pc = "monitor_init"
    /\ peak_dt' = Zero4
    /\ peak_time' = Zero4
    /\ start_ms' = clock
    /\ pc' = "monitor"
    /\ UNCHANGED <<clock, heater, i, baseline, off_ms, on_ms, therm, reads,
                   max_idx, result, samples, trace>>

\* while (millis() - start_ms < FLOW_MONITOR_MS)
InWindowAbsolute(now, start) ==
    LET deadline == U32Add(start, FLOW_MONITOR_MS)
    IN  now[1] < deadline[1] \/ (now[1] = deadline[1] /\ now[2] < deadline[2])
InWindowInclusive(now, start) == U32Less(U32Sub(now, start), FLOW_MONITOR_MS + 1)
InWindow(now, start) == U32Less(U32Sub(now, start), FLOW_MONITOR_MS)

\* if (dt > peak_dt[j])
RaisesPeakNonStrict(dt, peak) == dt >= peak
RaisesPeakMagnitude(dt, peak) == dt > peak \/ 0 - dt > peak
RaisesPeak(dt, peak) == dt > peak

\* the update of one channel's peak by a rise dt seen at elapsed time e
TrackDtLatest(peak, dt) == dt
TrackDt(peak, dt) == IF RaisesPeak(dt, peak) THEN dt ELSE peak
TrackTimeAlways(peak, ptime, dt, e) == e
TrackTime(peak, ptime, dt, e) == IF RaisesPeak(dt, peak) THEN e ELSE ptime

\* one iteration of the loop: read, elapsed_s, the four updates, delay
MonitorSample ==
    /\ pc = "monitor"
    /\ InWindow(clock, start_ms)
    /\ Len(samples) < MaxSamples
    /\ \E r \in MonitorReadings :
          LET now     == U32Add(clock, r.ms)
              elapsed == U32Val(U32Sub(now, start_ms))
              dt      == [j \in Chan |-> FloatAdd(r.t[j], 0 - baseline[j])]
          IN  /\ peak_dt' = [j \in Chan |-> TrackDt(peak_dt[j], dt[j])]
              /\ peak_time' = [j \in Chan |->
                                 TrackTime(peak_dt[j], peak_time[j], dt[j], elapsed)]
              /\ clock' = Delay(now, FLOW_SAMPLE_MS)
              /\ samples' = Append(samples,
                                   [at |-> U32Val(U32Sub(clock, start_ms)),
                                    clk |-> now, elapsed |-> elapsed, t |-> r.t,
                                    read_ms |-> r.ms])
    /\ trace' = Append(trace, "monitor_read")
    /\ UNCHANGED <<pc, heater, i, baseline, start_ms, off_ms, on_ms, therm,
                   reads, max_idx, result>>

MonitorDone ==
    /\ pc = "monitor"
    /\ ~InWindow(clock, start_ms)
    /\ pc' = "analyze"
    /\ UNCHANGED <<clock, heater, i, baseline, start_ms, off_ms, on_ms, therm,
                   reads, peak_dt, peak_time, max_idx, result, samples,
                   trace>>

(***************************************************************************)
(* Step 4: the dominant thermistor                                         *)
(***************************************************************************)
\* if (peak_dt[j] > peak_dt[max_idx]) max_idx = j;
BeatsNonStrict(pd, j, m) == pd[j] >= pd[m]
Beats(pd, j, m) == pd[j] > pd[m]

RECURSIVE ScanMax(_, _, _)
ScanMax(pd, j, m) ==
    IF j > CH_THERM_W THEN m
    ELSE ScanMax(pd, j + 1, IF Beats(pd, j, m) THEN j ELSE m)

\* int max_idx = 0; for (int j = 1; j < 4; j++) ...
MaxIdx(pd) == ScanMax(pd, 1, 0)

FindDominant ==
    /\ pc = "analyze"
    /\ max_idx' = MaxIdx(peak_dt)
    /\ pc' = "decide"
    /\ UNCHANGED <<clock, heater, i, baseline, start_ms, off_ms, on_ms, therm,
                   reads, peak_dt, peak_time, result, samples, trace>>

\* if (peak_dt[max_idx] < 0.05f)
StagnantAtOrBelow(pd, m) == pd[m] <= STAGNANT_DT
StagnantOnlyZero(pd, m) == pd[m] <= 0
Stagnant(pd, m) == pd[m] < STAGNANT_DT

\* the result of the "no measurable flow" branch
StagnantResultInvalid(pd, pt) ==
    [velocity_cm_day |-> 0, direction_deg |-> -1, valid |-> FALSE,
     peak_temps |-> pd, peak_times |-> pt]
StagnantResult(pd, pt) ==
    [velocity_cm_day |-> 0, direction_deg |-> -1, valid |-> TRUE,
     peak_temps |-> pd, peak_times |-> pt]

ReturnStagnant ==
    /\ pc = "decide"
    /\ Stagnant(peak_dt, max_idx)
    /\ result' = StagnantResult(peak_dt, peak_time)
    /\ pc' = "done"
    /\ UNCHANGED <<clock, heater, i, baseline, start_ms, off_ms, on_ms, therm,
                   reads, peak_dt, peak_time, max_idx, samples, trace>>

(***************************************************************************)
(* Step 5a: direction, as the nearest whole degree.                        *)
(*                                                                         *)
(* rad = dirs[j] * M_PI / 180.0f is the float nearest to 0, pi/2, pi and   *)
(* 3pi/2, and sinf and cosf of these floats are 0, 1 or -1, except that    *)
(*   sinf((float)pi)      = -8.74227766e-08,                               *)
(*   cosf((float)(pi/2))  = -4.37113883e-08,                               *)
(*   cosf((float)(3pi/2)) =  1.19248806e-08,                               *)
(* because the float nearest to pi is not pi.  sin_sum and cos_sum are     *)
(* computed as the loop computes them, term by term in float.  The build   *)
(* decides whether sum += weight * sinf(rad) rounds the product and then   *)
(* the sum or is one fused multiply-add, so each sum is a set: the floats  *)
(* that some choice, term by term, can leave in it.                        *)
(*                                                                         *)
(* direction_deg is the whole degree nearest to the float the code         *)
(* returns; 360 stands for the float 360.0f alone, a float from 359.5 up   *)
(* to the last one below 360.0f is 359.  atan2f, the product by 180.0f     *)
(* and the division by M_PI are accurate to about one float step (2^-15    *)
(* degrees below 360), and the C library decides the last bit: where the   *)
(* angle of (cos_sum, sin_sum) lies within 2^-14 degrees of a half degree  *)
(* the direction is either of the two whole degrees next to it, and where  *)
(* it lies within 2^-22 (relatively) of the 2^-16 degrees below 360 at     *)
(* which the sum with 360.0f starts to round to 360.0f, it is 359 or 360.  *)
(***************************************************************************)
\* sinf(rad) and cosf(rad) for the bearings of N, E, S, W
SINF_BEARING == <<0, 1065353216, 0 - 867941678, 0 - 1065353216>>
COSF_BEARING == <<1065353216, 0 - 859553070, 0 - 1065353216, 843898414>>

\* sum += weight * t: the floats it can leave in sum
\* (the sum and the rounded product are worked out once, as v)
Accrued(sum, weight, t) ==
    CHOOSE S \in {{FloatAdd(v[1], v[4]), FloatFma(v[2], v[3], v[1])} :
                    v \in {<<sum, weight, t, FloatMul(weight, t)>>}} : TRUE

RECURSIVE WeightedSum(_, _, _)
\* sum += weight * tab[j] for the channels N .. j in turn, from sum = 0: the
\* floats sum can hold
WeightedSum(pd, tab, j) ==
    IF j < CH_THERM_N THEN {0}
    ELSE UNION {Accrued(s, pd[j], tab[j + 1]) : s \in WeightedSum(pd, tab, j - 1)}

\* the floats sin_sum and cos_sum can hold after the loop
SinSum(pd) == WeightedSum(pd, SINF_BEARING, CH_THERM_W)
CosSum(pd) == WeightedSum(pd, COSF_BEARING, CH_THERM_W)

\* tan of (k - 0.5) degrees less 2^-14 degrees, k = 1 .. 45, in 1e-9, floored
TanLo ==
    <<8725802, 26184855, 43659875, 61161550, 78700634, 96287973, 113934529,
      131651413, 149449912, 167341513, 185337943, 203451190, 221693545, 240077632,
      258616447, 277323396, 296212336, 315297617, 334594134, 354117373, 373883465,
      393909245, 414212314, 434811108, 455724969, 476974225, 498580277, 520565696,
      542954320, 565771371, 589043581, 612799322, 637068763, 661884029, 687279390,
      713291460, 739959426, 767325295, 795434177, 824334596, 854078843, 884723365,
      916329214, 948962542, 982695169>>
\* tan of (k - 0.5) degrees plus 2^-14 degrees, in 1e-9, rounded up
TanHi ==
    <<8727934, 26186988, 43662011, 61163690, 78702779, 96290124, 113936688,
      131653582, 149452091, 167343705, 185340147, 203453409, 221695781, 240079886,
      258618721, 277325692, 296214654, 315299961, 334596505, 354119772, 373885894,
      393911707, 414214811, 434813642, 455727543, 476976841, 498582939, 520568405,
      542957079, 565774185, 589046452, 612802254, 637071759, 661887094, 687282528,
      713294676, 739962724, 767328681, 795437656, 824338175, 854082528, 884727164,
      916333134, 948966592, 982699358>>
\* tan of 2^-16 degrees (half the float spacing below 360), times 2^22, in
\* 1e-9: 2^-22 less, and 2^-22 more
C360_LO == 1117010454
C360_HI == 1117010988

\* floor(1e9 * FloatMant(a) / FloatMant(b)), for floats a, b other than 0
MantRatio(a, b) == Scaled(FloatMant(a), FloatMant(b), 9)

\* floor(1e9 * a / b) to within one, for floats 0 <= a <= b, b > 0
RatioPPB(a, b) ==
    IF a = 0 THEN 0
    ELSE IF FloatExp(b) - FloatExp(a) > 30 THEN 0
    ELSE MantRatio(a, b) \div (2 ^ (FloatExp(b) - FloatExp(a)))

\* the whole degrees 0 .. 45 that the angle whose tangent is r * 1e-9 can
\* round to
OctantDegs(r) ==
    {n \in 0..45 : /\ (n = 0 \/ r >= TanLo[n])
                   /\ (n = 45 \/ r <= TanHi[n + 1])}

\* ... for the tangent a / b, floats 0 <= a <= b, b > 0 (worked out once, as r)
OctantOf(a, b) == CHOOSE D \in {OctantDegs(r) : r \in {RatioPPB(a, b)}} : TRUE

\* atan(a / b) in degrees, to the nearest whole degree, for floats
\* a, b >= 0, not both 0
PhiDegs(a, b) == IF a <= b THEN OctantOf(a, b) ELSE {90 - n : n \in OctantOf(b, a)}

\* direction += 360.0f for an angle less than half a degree below 0, whose
\* tangent is -(r0 * 1e-9) * 2^-d: 360 if the sum rounds to 360.0f, else 359
Near360Of(d, r0) ==
    IF d > 22 THEN {360}
    ELSE IF d < 21 \/ (d = 21 /\ r0 > 10 ^ 9) THEN {359}
    ELSE {g \in {359, 360} :
             /\ g = 360 => (IF d = 21 THEN 2 * r0 ELSE r0) <= C360_HI
             /\ g = 359 => (IF d = 21 THEN 2 * r0 ELSE r0) >= C360_LO}

\* ... for the tangent -a / b, floats 0 < a <= b
Near360(a, b) ==
    UNION {Near360Of(FloatExp(b) - FloatExp(a), r0) : r0 \in {MantRatio(a, b)}}

\* atan2f(y, x) * 180.0f / M_PI;  if (direction < 0) direction += 360.0f;
\* the whole degrees it can round to
Atan2Degs(y, x) ==
    CASE y = 0 /\ x >= 0 -> {0}
      [] y = 0 /\ x < 0  -> {180}
      [] y > 0 /\ x >= 0 -> PhiDegs(y, x)
      [] y > 0 /\ x < 0  -> {180 - n : n \in PhiDegs(y, 0 - x)}
      [] y < 0 /\ x < 0  -> {180 + n : n \in PhiDegs(0 - y, 0 - x)}
      [] y < 0 /\ x >= 0 ->
            UNION {IF n = 0 THEN Near360(0 - y, x) ELSE {360 - n} :
                      n \in PhiDegs(0 - y, x)}

\* the values direction_deg can take
Directions(pd) ==
    UNION {Atan2Degs(v[1], v[2]) : v \in SinSum(pd) \X CosSum(pd)}

(***************************************************************************)
(* Step 5b: velocity, a float (cm/day).  A peak time is carried in ms and  *)
(* stands for the float elapsed_s that line 96 makes of it.                *)
(***************************************************************************)
\* float elapsed_s = (millis() - start_ms) / 1000.0f, for ms milliseconds
Seconds(ms) == FloatQuot(IntFloat(ms), IntFloat(1000))

\* FLOW_CAL_K / t in float, for the float t
PerSecond(t) == FloatQuot(IntFloat(FLOW_CAL_K), t)

\* lines 141-146 for the dominant channel's peak time of pt ms
\* (elapsed_s is worked out once, as t)
VelocityZeroGuardOnly(pt) ==
    CHOOSE v \in {IF t > 0 THEN PerSecond(t) ELSE PerSecond(Seconds(PEAK_TIME_FLOOR)) :
                    t \in {Seconds(pt)}} : TRUE
Velocity(pt) ==
    CHOOSE v \in {IF t > Seconds(PEAK_TIME_FLOOR)
                  THEN PerSecond(t) ELSE PerSecond(Seconds(PEAK_TIME_FLOOR)) :
                    t \in {Seconds(pt)}} : TRUE

\* the result of the flow branch, with the direction d
FlowResultClamped(pd, pt, m, d) ==
    [velocity_cm_day |-> Velocity(pt[m]), direction_deg |-> d,
     valid |-> TRUE, peak_temps |-> pd,
     peak_times |-> [pt EXCEPT ![m] = IF pt[m] > PEAK_TIME_FLOOR
                                      THEN pt[m] ELSE PEAK_TIME_FLOOR]]
FlowResultOf(pd, pt, m, d) ==
    [velocity_cm_day |-> Velocity(pt[m]), direction_deg |-> d,
     valid |-> TRUE, peak_temps |-> pd, peak_times |-> pt]

ReturnFlow ==
    /\ pc = "decide"
    /\ ~Stagnant(peak_dt, max_idx)
    /\ \E d \in Directions(peak_dt) :
          result' = FlowResultOf(peak_dt, peak_time, max_idx, d)
    /\ pc' = "done"
    /\ UNCHANGED <<clock, heater, i, baseline, start_ms, off_ms, on_ms, therm,
                   reads, peak_dt, peak_time, max_idx, samples, trace>>

(***************************************************************************)
(* The cycle                                                               *)
(***************************************************************************)
Next ==
    \/ BaselineRead
    \/ BaselineDone
    \/ HeaterOn
    \/ HeaterHold
    \/ HeaterOff
    \/ Settle
    \/ MonitorStart
    \/ MonitorSample
    \/ MonitorDone
    \/ FindDominant
    \/ ReturnStagnant
    \/ ReturnFlow

Spec == Init /\ [][Next]_vars

\* every delay and every ADC read returns, so the sequential program steps
FairSpec == Spec /\ WF_vars(Next)

(***************************************************************************)
(* The Flow Estimator alone (steps 4 and 5), as a function of the peaks:   *)
(* the state at the end of the monitoring loop is drawn from bounded sets  *)
(* of peak rises and peak times, and the analysis runs on it.  The history *)
(* variables carry no information under this specification.                *)
(***************************************************************************)
\* peak rises: none, the last multiple of 2^-15 C below the threshold
\* (0.0499878, 14932 counts over a baseline of 14947), the threshold 0.05f
\* itself (20321 counts over the mean of 20344, 20341, 20351, 20347, 20351,
\* 20341, 20342, 20348, 20354 and 20214), the first multiple above it
\* (0.0500183, 14767 counts over 14782), 0.5 (14040 over 14189) and 1.0
\* (13966 over 14264)
FlowLevels == {0, 1028440064, 1028443341, 1028448256, 1056964608, 1065353216}

\* peak times in ms, one per channel; a channel that never rose keeps 0.
\* The last four are times whose elapsed_s is not the decimal
\* (563 / 1000.0f is 0.563000023), so that K / elapsed_s, 1598.57898, lies a
\* float step from K / 0.563.
FlowTimes ==
    { <<0, 0, 0, 0>>, <<100, 100, 100, 100>>, <<500, 600, 100, 1000>>,
      <<600, 500, 1000, 100>>, <<1000, 100, 500, 59900>>, <<100, 59900, 600, 500>>,
      <<563, 820, 1390, 26410>> }

InitFlow ==
    /\ pc = "analyze"
    /\ clock = <<1, 0>>
    /\ heater = "LOW"
    /\ i = BASELINE_READS
    /\ baseline = [j \in Chan |-> TempOfCount(14189)]
    /\ start_ms = <<0, 5000>>
    /\ peak_dt \in [Chan -> FlowLevels]
    /\ \E ts \in FlowTimes :
          peak_time = [j \in Chan |-> IF peak_dt[j] = 0 THEN 0 ELSE ts[j + 1]]
    /\ max_idx = 0
    /\ result = ResultInit
    /\ samples = <<>>
    /\ off_ms = <<0, 4500>>
    /\ on_ms = <<0, 500>>
    /\ therm = ThermIdle
    /\ reads = NoReads
    /\ trace = <<>>

NextFlow ==
    \/ FindDominant
    \/ ReturnStagnant
    \/ ReturnFlow

SpecFlow == InitFlow /\ [][NextFlow]_vars

(***************************************************************************)
(* One call of thermistor_temp, for every count the ADC can deliver.       *)
(***************************************************************************)
InitTherm ==
    /\ pc = "therm"
    /\ clock = <<0, 0>>
    /\ heater = "LOW"
    /\ i = 0
    /\ baseline = Zero4
    /\ start_ms = <<0, 0>>
    /\ peak_dt = Zero4
    /\ peak_time = Zero4
    /\ max_idx = 0
    /\ result = ResultInit
    /\ samples = <<>>
    /\ off_ms = <<0, 0>>
    /\ on_ms = <<0, 0>>
    /\ therm = [ThermIdle EXCEPT !.pc = "read"]
    /\ reads = NoReads
    /\ trace = <<>>

\* int16_t raw = adc.readADC_SingleEnded(channel)
ReadADC ==
    /\ therm.pc = "read"
    /\ \E raw \in RawCounts : therm' = [therm EXCEPT !.pc = "convert", !.raw = raw]
    /\ UNCHANGED <<pc, clock, heater, i, baseline, start_ms, peak_dt,
                   peak_time, max_idx, result, samples, off_ms, on_ms,
                   reads, trace>>

\* the rest of the function, to its return
ThermReturn ==
    /\ therm.pc = "convert"
    /\ therm' = [pc |-> "returned", raw |-> therm.raw,
                 temp_c |-> thermistor_temp(therm.raw).temp_c,
                 logf_calls |-> thermistor_temp(therm.raw).logf_calls]
    /\ UNCHANGED <<pc, clock, heater, i, baseline, start_ms, peak_dt,
                   peak_time, max_idx, result, samples, off_ms, on_ms,
                   reads, trace>>

NextTherm ==
    \/ ReadADC
    \/ ThermReturn

SpecTherm == InitTherm /\ [][NextTherm]_vars

(***************************************************************************)
(* The Baseline Estimator alone (step 1).  Channel N reads three warm      *)
(* temperatures (5742, 5739 and 5737 counts are 56.8948669 C, 56.9132996 C *)
(* and 56.9255676 C), channel E the same warm temperature every time,      *)
(* channel S a mix of the sentinel -999 (0 counts), 1014.6344 C (1 count), *)
(* -10.0020142 C (22532 counts) and 21.6592407 C (14189 counts), whose     *)
(* sums cancel, and channel W 21.6592407 C every time.                     *)
(***************************************************************************)
FloatReadings ==
    { ReadCounts(5742, 5742, 0, 14189, 0),
      ReadCounts(5739, 5742, 1, 14189, 0),
      ReadCounts(5737, 5742, 22532, 14189, 0),
      ReadCounts(5742, 5742, 14189, 14189, 0) }

InitBaseline ==
    /\ pc = "baseline"
    /\ clock = <<0, 0>>
    /\ heater = "LOW"
    /\ i = 0
    /\ baseline = Zero4
    /\ start_ms = <<0, 0>>
    /\ peak_dt = Zero4
    /\ peak_time = Zero4
    /\ max_idx = 0
    /\ result = ResultInit
    /\ samples = <<>>
    /\ off_ms = <<0, 0>>
    /\ on_ms = <<0, 0>>
    /\ therm = ThermIdle
    /\ reads = NoReads
    /\ trace = <<>>

BaselineReadFloat == \E r \in FloatReadings : BaselineStep(r)

NextBaseline ==
    \/ BaselineReadFloat
    \/ BaselineDone

SpecBaseline == InitBaseline /\ [][NextBaseline]_vars

(***************************************************************************)
(* Properties                                                              *)
(***************************************************************************)
AfterLoop == pc \in {"analyze", "decide", "done"}
Returned  == pc = "done"

\* the positions of an event in the trace
At(e) == {p \in 1..Len(trace) : trace[p] = e}
\* every a happens before every b
Precedes(a, b) == \A p \in At(a), q \in At(b) : p < q

\* the largest peak rise, and the lowest channel that has it
MaxPeak == CHOOSE m \in {peak_dt[j] : j \in Chan} : \A j \in Chan : peak_dt[j] <= m
Dominant == CHOOSE d \in Chan :
                /\ peak_dt[d] = MaxPeak
                /\ \A j \in Chan : peak_dt[j] = MaxPeak => d <= j

\* C1: the phases of a cycle occur in strict order: the heater is driven
\* HIGH only after all 10 baseline reads, it is driven LOW before the settle
\* wait, and the settle wait is over before the first monitoring read.
C1_PhaseOrder ==
    /\ At("heater_high") # {} => Cardinality(At("baseline_read")) = 10
    /\ Precedes("baseline_read", "heater_high")
    /\ Precedes("heater_high", "heater_low")
    /\ Precedes("heater_low", "settle_done")
    /\ Precedes("settle_done", "monitor_read")
    /\ At("settle_done") # {} => At("heater_low") # {}
    /\ At("monitor_read") # {} => At("settle_done") # {}
    /\ heater = "HIGH" => At("settle_done") = {} /\ At("monitor_read") = {}

C1_Witness ==
    /\ Returned
    /\ Cardinality(At("baseline_read")) = 10
    /\ Cardinality(At("heater_high")) = 1
    /\ Cardinality(At("heater_low")) = 1
    /\ Cardinality(At("settle_done")) = 1
    /\ Cardinality(At("monitor_read")) = 5

\* the history of channel j: the seed (rise 0 at time 0), then the rise and
\* the elapsed time of every monitoring sample
History(j) ==
    <<[rise |-> 0, at |-> 0]>> \o
    [k \in 1..Len(samples) |->
        [rise |-> FloatAdd(samples[k].t[j], 0 - baseline[j]),
         at |-> samples[k].elapsed]]

HistMax(h) == CHOOSE m \in {h[k].rise : k \in 1..Len(h)} :
                  \A k \in 1..Len(h) : h[k].rise <= m
HistFirst(h) == LET m == HistMax(h)
                IN  CHOOSE k \in 1..Len(h) :
                        /\ h[k].rise = m
                        /\ \A l \in 1..(k - 1) : h[l].rise < m

\* C2: after the monitoring loop, peak_dt[j] is the maximum of 0 and all
\* rises seen on channel j, and peak_time[j] is the elapsed time of the
\* first sample that reached it (0 for the seed, when no rise exceeded 0).
C2_PeakIsFirstMax ==
    AfterLoop =>
        \A j \in Chan :
            LET h == History(j)
            IN  /\ peak_dt[j] = HistMax(h)
                /\ peak_time[j] = h[HistFirst(h)].at

\* rises 0, 0.2516, 0.5, 0.2516, 0.1241 on channel N (14189, 14114, 14040,
\* 14114 and 14152 counts over a baseline of 14189 counts) give the peak
\* 0.5 at the third sample
C2_Witness ==
    /\ Returned
    /\ Len(samples) = 5
    /\ baseline[CH_THERM_N] = TempOfCount(14189)
    /\ [k \in 1..5 |-> samples[k].t[CH_THERM_N]]
          = <<TempOfCount(14189), TempOfCount(14114), TempOfCount(14040),
              TempOfCount(14114), TempOfCount(14152)>>
    /\ [k \in 1..5 |-> History(CH_THERM_N)[k + 1].rise]
          = <<0, 1048628224, 1056964608, 1048628224, 1040064512>>
    /\ [k \in 1..5 |-> samples[k].elapsed] = <<0, 100, 200, 300, 700>>
    /\ peak_dt[CH_THERM_N] = 1056964608
    /\ peak_time[CH_THERM_N] = 200

\* C3: when the dominant channel's peak rise is below 0.05, the result is
\* velocity 0, direction -1, valid.
C3_StagnantResult ==
    (Returned /\ MaxPeak < STAGNANT_DT) =>
        /\ result.velocity_cm_day = 0
        /\ result.direction_deg = -1
        /\ result.valid = TRUE

C3_Witness ==
    /\ Returned
    /\ \A j \in Chan : peak_dt[j] = 1028440064    \* 0.0499878
    /\ result.velocity_cm_day = 0
    /\ result.direction_deg = -1

\* C4 as stated: the direction is defined if and only if the dominant
\* channel's peak rise exceeds the threshold.
C4_DefinedIffExceeds ==
    Returned => (result.direction_deg # -1 <=> MaxPeak > STAGNANT_DT)

\* C4 as amended: the direction is defined if and only if the dominant
\* channel's peak rise is not below the threshold (it is at least 0.05).
C4_DefinedIffNotBelow ==
    Returned => (result.direction_deg # -1 <=> MaxPeak >= STAGNANT_DT)

C4_Witness ==
    /\ Returned
    /\ MaxPeak = STAGNANT_DT
    /\ result.direction_deg # -1

\* C5: a returned direction is the sentinel -1 or lies in [0, 360).
C5_DirectionRange ==
    Returned =>
        \/ result.direction_deg = -1
        \/ (0 <= result.direction_deg /\ result.direction_deg < 360)

\* C6: every returned FlowResult has valid = true.
C6_ReturnedValid == Returned => result.valid = TRUE

C6_Witness ==
    /\ Returned
    /\ result.valid = TRUE
    /\ result.direction_deg = -1
    /\ Len(samples) = 5

\* C7: the dominant channel is the one with the largest peak rise, the
\* lowest index among those that share it.
C7_DominantIsLowestMax ==
    pc \in {"decide", "done"} =>
        /\ max_idx \in Chan
        /\ \A j \in Chan : peak_dt[j] <= peak_dt[max_idx]
        /\ \A j \in Chan : peak_dt[j] = peak_dt[max_idx] => max_idx <= j

C7_Witness ==
    /\ pc = "decide"
    /\ peak_dt[CH_THERM_N] = 1028448256    \* 0.0500183
    /\ peak_dt[CH_THERM_E] = 1056964608    \* 0.5f
    /\ peak_dt[CH_THERM_S] = 1028440064    \* 0.0499878
    /\ peak_dt[CH_THERM_W] = 1056964608
    /\ max_idx = CH_THERM_E

\* the larger of two numbers
Larger(a, b) == IF a > b THEN a ELSE b

\* C8: on the flow path the velocity is K / max(peak time of the dominant
\* channel, 0.5 s); it never exceeds K / 0.5.
C8_VelocityFloor ==
    (Returned /\ result.direction_deg # -1) =>
        /\ result.velocity_cm_day =
              PerSecond(Seconds(Larger(peak_time[Dominant], PEAK_TIME_FLOOR)))
        /\ result.velocity_cm_day <= IntFloat(1800)

\* a dominant peak at 0.1 s gives 1800 cm/day, as one at 0.5 s does
C8_Witness ==
    /\ Returned
    /\ result.direction_deg # -1
    /\ peak_time[Dominant] = 100
    /\ result.velocity_cm_day = IntFloat(1800)

\* C9: from the start of monitoring to the return no peak rise is negative,
\* whatever is read, and no returned peak_temps entry is negative.
C9_PeaksNonNegative ==
    /\ pc \in {"monitor", "analyze", "decide", "done"} =>
          \A j \in Chan : peak_dt[j] >= 0
    /\ Returned => \A j \in Chan : result.peak_temps[j] >= 0

\* a cycle that read a sentinel and a reading below the baseline on channel W
C9_Witness ==
    /\ Returned
    /\ \E k \in 1..Len(samples) : samples[k].t[CH_THERM_W] = SENTINEL
    /\ \E k \in 1..Len(samples) : samples[k].t[CH_THERM_W] = TempOfCount(14226)
    /\ baseline[CH_THERM_W] = TempOfCount(14189)
    /\ result.peak_temps[CH_THERM_W] = 0

\* C10: every cycle eventually returns a FlowResult.
C10_Returns == <>(pc = "done")

C10_Witness ==
    /\ Returned
    /\ result.valid = TRUE
    /\ Cardinality(At("baseline_read")) = 10
    /\ Len(samples) = 2

\* the rises of channel j over its baseline, one per monitoring sample
Rise(j) == Tail(History(j))
\* sample k raised the running maximum of a channel whose rises are rs
Raised(rs, k) == rs[k].rise > 0 /\ \A l \in 1..(k - 1) : rs[l].rise < rs[k].rise
\* the last sample that raised it (for a channel whose peak is above 0)
LastRaiseOf(rs) == CHOOSE k \in 1..Len(rs) :
                       Raised(rs, k) /\ \A l \in (k + 1)..Len(rs) : ~Raised(rs, l)
LastRaise(j) == LET rs == Rise(j) IN LastRaiseOf(rs)
\* real time between the heater's deassert, or the start of monitoring, and
\* the moment sample k computed its elapsed time
SinceHeaterOff(k) == U32Val(U32Sub(samples[k].clk, off_ms))
SinceStart(k) == U32Val(U32Sub(samples[k].clk, start_ms))

\* C11 as stated: the peak time of a channel, and its echo in the result, is
\* the time elapsed since the heater was driven LOW at the sample that last
\* raised the channel's running maximum.
C11_SinceHeaterOff ==
    AfterLoop =>
        \A j \in Chan : peak_dt[j] > 0 =>
            LET k == LastRaise(j) IN peak_time[j] = SinceHeaterOff(k)

\* C11 as amended: it is the time elapsed since the start of monitoring
\* (start_ms, taken after the settle wait), which is shorter than the time
\* since the heater was driven LOW by at least the settle wait.
C11_SinceMonitorStart ==
    /\ AfterLoop =>
          \A j \in Chan : peak_dt[j] > 0 =>
              LET k == LastRaise(j)
              IN  /\ peak_time[j] = SinceStart(k)
                  /\ SinceHeaterOff(k) - peak_time[j] >= HEATER_SETTLE_MS
    /\ Returned =>
          \A j \in Chan : peak_dt[j] > 0 =>
              LET k == LastRaise(j) IN result.peak_times[j] = SinceStart(k)

\* channel N peaks at the third sample, 0.2 s into monitoring and 0.7 s
\* after the heater was driven LOW
C11_Witness ==
    /\ Returned
    /\ peak_dt[CH_THERM_N] = 1056964608    \* 0.5f
    /\ LastRaise(CH_THERM_N) = 3
    /\ result.peak_times[CH_THERM_N] = 200
    /\ SinceHeaterOff(3) = 700

\* C12: a count of 0 or less, or one whose voltage is above the 3.3 V
\* excitation (26400 counts are 3.3 V, and the float voltage computed for
\* them lies above 3.3f), returns exactly -999 without calling logf; every
\* count in between returns a temperature, a number other than -999, from
\* one call of logf; the function always returns.
C12_SentinelIffNotPositive ==
    therm.pc = "returned" =>
        IF therm.raw <= 0 \/ therm.raw >= 26400
        THEN therm.temp_c = 0 - 999000 /\ therm.logf_calls = 0
        ELSE /\ therm.temp_c \in Int
             /\ therm.temp_c # 0 - 999000
             /\ therm.temp_c > ABS_ZERO
             /\ therm.logf_calls = 1

\* the last count below saturation, about -104.6 C
C12_Witness ==
    /\ therm.pc = "returned"
    /\ therm.raw = 26399
    /\ therm.temp_c = 0 - 104577

\* the distance between two directions on the circle, in degrees
AngleGap(a, b) ==
    LET g == IF a >= b THEN (a - b) % 360 ELSE (b - a) % 360
    IN  IF g > 180 THEN 360 - g ELSE g

\* C13: on the flow path the direction is the angle of the vector
\* (E - W, N - S) of the peak rises (to within a degree, on the circle);
\* with equal rises on N and E and none on S and W it is 45 degrees.
C13_DirectionIsVectorAngle ==
    (Returned /\ result.direction_deg # -1) =>
        LET n == peak_dt[CH_THERM_N]
            e == peak_dt[CH_THERM_E]
            s == peak_dt[CH_THERM_S]
            w == peak_dt[CH_THERM_W]
        IN  /\ (n = e /\ s = 0 /\ w = 0) => result.direction_deg = 45
            /\ \A a \in Atan2Degs(FloatAdd(e, 0 - w), FloatAdd(n, 0 - s)) :
                  AngleGap(result.direction_deg, a) <= 1

\* how many binary places below 2^-15 C the float b goes (0 for b = 0 and
\* from 512 C up); a b within 2^-12 C of 0 is measured to 2^-35 C
Finer(b) ==
    IF b = 0 \/ FloatExp(b) >= 135 THEN 0
    ELSE IF FloatExp(b) < 115 THEN 20
    ELSE 135 - FloatExp(b)

\* |10 * b - s| for a float b and a whole number s of units 2^-15 C, in
\* units of 2^-(15 + Finer(b)) C: ten times the distance between b and the
\* exact mean of ten readings that add up to s
MeanGap(b, s) == Abs(10 * Units(b, 15 + Finer(b)) - s * 2 ^ Finer(b))

\* the spacing of the floats at b, in the same units
Spacing(b) == IF FloatExp(b) > 135 THEN 2 ^ (FloatExp(b) - 135) ELSE 1

\* a / 2^20 for a whole number a of units 2^-15 C, in the units of
\* MeanGap(b, s), rounded down
Rounding(b, a) == a \div (2 ^ (20 - Finer(b)))

\* 10 * b is within d + 10 units of 2^-15 C of s, with b cut to that
\* unit: what MeanGap(b, s) <= d * 2 ^ Finer(b) implies, and what keeps
\* s * 2 ^ Finer(b) within 32 bits
Near(b, s, d) == Abs(10 * Units(b, 15) - s) <= d + 10

\* the float b is within 2^-20 of a / 10 of the exact mean s / 10
WithinRounding(b, s, a) ==
    /\ Near(b, s, a \div (2 ^ 20))
    /\ MeanGap(b, s) <= Rounding(b, a)

\* the float b is the float nearest to the exact mean s / 10
NearestToMean(b, s) ==
    /\ Near(b, s, 5 * Spacing(b))
    /\ 2 * MeanGap(b, s) <= 10 * Spacing(b)

\* C14 as stated: the baseline of channel j is the arithmetic mean of the 10
\* readings of channel j taken before the heater fires (the float nearest to
\* it), whatever the other channels read, and 10 identical readings yield
\* that reading.
C14_ExactMean ==
    pc = "heater_on" =>
        /\ reads.n = 10
        /\ At("heater_high") = {}
        /\ \A j \in Chan :
              /\ NearestToMean(baseline[j], reads.sum[j])
              /\ reads.lo[j] = reads.hi[j] => baseline[j] = reads.lo[j]

\* C14 as amended: it is that mean as float arithmetic computes it, the ten
\* readings added up one by one and the sum divided by 10: its distance
\* from the exact mean is at most 2^-20 of the mean magnitude of the ten
\* readings, and for 10 identical readings it is within two float steps of
\* the reading.
C14_FloatMean ==
    pc = "heater_on" =>
        /\ reads.n = 10
        /\ At("heater_high") = {}
        /\ \A j \in Chan :
              /\ WithinRounding(baseline[j], reads.sum[j], reads.mag[j])
              /\ reads.lo[j] = reads.hi[j] => Abs(baseline[j] - reads.lo[j]) <= 2

\* ten readings of 5742 counts (56.8948669 C) on channel E give the
\* baseline 56.8948746, two float steps above the reading, while channel N
\* reads three different values; five sentinels and five readings of
\* 1014.6344 C on channel S, whose exact mean is 7.8172 C, give a baseline
\* further than 2^-20 of itself from that mean
C14_Witness ==
    /\ pc = "heater_on"
    /\ reads.lo[CH_THERM_E] = TempOfCount(5742)
    /\ reads.hi[CH_THERM_E] = TempOfCount(5742)
    /\ baseline[CH_THERM_E] = TempOfCount(5742) + 2
    /\ reads.lo[CH_THERM_N] < reads.hi[CH_THERM_N]
    /\ reads.lo[CH_THERM_S] = SENTINEL
    /\ reads.hi[CH_THERM_S] = TempOfCount(1)
    /\ reads.mag[CH_THERM_S] = 5 * 32735232 + 5 * 33247540
    /\ MeanGap(baseline[CH_THERM_S], reads.sum[CH_THERM_S])
          > Rounding(baseline[CH_THERM_S], Abs(reads.sum[CH_THERM_S]))

\* thermistor reads, in the trace
ReadsAt == At("baseline_read") \cup At("monitor_read")

\* C15: the heater is driven HIGH once per cycle, stays HIGH for one wait of
\* HEATER_POWER_MS, is then driven LOW and is LOW from then on, through the
\* settle wait, every monitoring sample and the return; no thermistor is
\* read while it is HIGH.
C15_OnePulse ==
    /\ Cardinality(At("heater_high")) <= 1
    /\ Cardinality(At("heater_low")) <= 1
    /\ pc \notin {"baseline", "heater_on"} => Cardinality(At("heater_high")) = 1
    /\ heater = "HIGH" <=> (At("heater_high") # {} /\ At("heater_low") = {})
    /\ At("heater_low") # {} =>
          /\ heater = "LOW"
          /\ Precedes("heater_high", "heater_low")
          /\ U32Val(U32Sub(off_ms, on_ms)) = HEATER_POWER_MS
    /\ \A h \in At("heater_high"), p \in ReadsAt :
          h < p => \E l \in At("heater_low") : h < l /\ l < p
    /\ Returned => heater = "LOW" /\ At("heater_low") # {}

\* a whole cycle with five monitoring samples, on either return path
C15_Witness ==
    /\ Returned
    /\ heater = "LOW"
    /\ U32Val(U32Sub(off_ms, on_ms)) = 4000
    /\ Cardinality(At("monitor_read")) = 5
    /\ Cardinality(At("baseline_read")) = 10
    /\ result.direction_deg # -1

\* the clock time elapsed since the start of monitoring, in ms
ElapsedNow == U32Val(U32Sub(clock, start_ms))

\* the sample the step has just taken
Taken == samples'[Len(samples')]
\* the step has raised the peak of some channel
Updated == \E j \in Chan : peak_dt'[j] # peak_dt[j]

\* C16 as stated: at every loop check a monitoring sample is started if and
\* only if the time elapsed since the start of monitoring is strictly below
\* FLOW_MONITOR_MS, whatever the number of samples taken and however long
\* the reads and delays were; otherwise the loop ends and the peaks stay
\* as they are.  So every sample that updates a peak lies within the
\* window: the elapsed time it records is below FLOW_MONITOR_MS.
C16_UpdatesInWindow ==
    [][pc = "monitor" =>
          IF ElapsedNow < FLOW_MONITOR_MS
          THEN /\ pc' = "monitor"
               /\ Len(samples') = Len(samples) + 1
               /\ Taken.at = ElapsedNow
               /\ Updated => Taken.elapsed < FLOW_MONITOR_MS
          ELSE /\ pc' = "analyze"
               /\ samples' = samples
               /\ peak_dt' = peak_dt
               /\ peak_time' = peak_time]_vars

\* C16 as amended: at every loop check a monitoring sample is started if
\* and only if the time elapsed since the start of monitoring is strictly
\* below FLOW_MONITOR_MS, whatever the number of samples taken and however
\* long the reads and delays were; otherwise the loop ends and the peaks
\* stay as they are.  Every sample that updates a peak was started inside
\* the window; the elapsed time it records as the peak time is taken after
\* its read has returned, exceeds the time of the loop check by the
\* duration of that read, and so can lie beyond FLOW_MONITOR_MS.
C16_WindowByClock ==
    [][pc = "monitor" =>
          IF ElapsedNow < FLOW_MONITOR_MS
          THEN /\ pc' = "monitor"
               /\ Len(samples') = Len(samples) + 1
               /\ Taken.at = ElapsedNow
               /\ Taken.elapsed = Taken.at + Taken.read_ms
               /\ \A j \in Chan :
                     peak_dt'[j] # peak_dt[j] =>
                         /\ peak_time'[j] = Taken.elapsed
                         /\ peak_time'[j] - Taken.read_ms < FLOW_MONITOR_MS
          ELSE /\ pc' = "analyze"
               /\ samples' = samples
               /\ peak_dt' = peak_dt
               /\ peak_time' = peak_time]_vars

\* four fast samples without a rise on channel W, then a slow one: it
\* starts 0.4 s into the 0.5 s window, is stamped 0.7 s and raises the
\* peak of W, whose peak time is 0.7 s; no sixth sample is started
C16_Witness ==
    /\ Returned
    /\ Len(samples) = 5
    /\ samples[5].at = 400
    /\ samples[5].elapsed = 700
    /\ peak_dt[CH_THERM_W] = 1056964608    \* 0.5f
    /\ peak_time[CH_THERM_W] = 700
    /\ ElapsedNow = 800

\* C17: once the monitoring loop has ended, no step changes peak_dt or
\* peak_time, and the step that returns, on either path, copies them into
\* result.peak_temps and result.peak_times as they stand.
C17_EchoesPeaks ==
    [][AfterLoop =>
          /\ peak_dt' = peak_dt
          /\ peak_time' = peak_time
          /\ pc' = "done" =>
                /\ result'.peak_temps = peak_dt
                /\ result'.peak_times = peak_time]_vars

\* the flow path with a dominant peak 0.1 s into monitoring: the velocity
\* uses the 0.5 s floor, the echoed peak time is still 0.1 s
C17_Witness ==
    /\ Returned
    /\ result.direction_deg # -1
    /\ peak_time[Dominant] = 100
    /\ result.peak_times = peak_time
    /\ result.peak_temps = peak_dt
    /\ result.velocity_cm_day = IntFloat(1800)
    /\ \E j \in Chan : 0 < peak_dt[j] /\ peak_dt[j] < STAGNANT_DT

\* C18: a monitoring sample that reads the sentinel -999 on channel j leaves
\* peak_dt[j] and peak_time[j] as they were, whatever the baseline (also a
\* baseline of ten sentinels, or of sentinels and temperatures mixed); the
\* other channels of the same sample are tracked as usual: a larger rise
\* replaces the peak and stamps the sample's elapsed time.
C18_SentinelLeavesPeak ==
    [][(pc = "monitor" /\ Len(samples') = Len(samples) + 1) =>
          LET smp == samples'[Len(samples')] IN
          \A j \in Chan :
              IF smp.t[j] = SENTINEL
              THEN peak_dt'[j] = peak_dt[j] /\ peak_time'[j] = peak_time[j]
              ELSE LET rise == FloatAdd(smp.t[j], 0 - baseline[j]) IN
                   /\ peak_dt'[j] = Larger(peak_dt[j], rise)
                   /\ rise > peak_dt[j] => peak_time'[j] = smp.elapsed
                   /\ rise <= peak_dt[j] => peak_time'[j] = peak_time[j]]_vars

\* channel W read the sentinel in all ten baseline reads (its rise is then
\* exactly 0) and in every sample: it keeps the peak 0 at time 0, while
\* channel N of the same samples rose to 0.5 C
C18_Witness ==
    /\ Returned
    /\ baseline[CH_THERM_W] = SENTINEL
    /\ Len(samples) = 5
    /\ \A k \in 1..Len(samples) : samples[k].t[CH_THERM_W] = SENTINEL
    /\ peak_dt[CH_THERM_W] = 0
    /\ peak_time[CH_THERM_W] = 0
    /\ peak_dt[CH_THERM_N] = 1056964608    \* 0.5f

RECURSIVE RealStart(_)
\* the real time between the start of monitoring and the loop check of
\* sample k: the reads and delays of the samples before it, added up
RealStart(k) ==
    IF k = 1 THEN 0
    ELSE RealStart(k - 1) + samples[k - 1].read_ms + FLOW_SAMPLE_MS
\* ... and the moment sample k computed its elapsed time
RealStamp(k) == RealStart(k) + samples[k].read_ms
\* ... and the loop check that follows the last sample taken
RealEnd == RealStart(Len(samples) + 1)

\* C19: also when millis() wraps around between the capture of start_ms and
\* the end of the window, every loop check and every recorded elapsed time
\* is the real time since the start of monitoring: samples are started
\* only below FLOW_MONITOR_MS of real time, and the loop ends at the first
\* check at or beyond it, neither earlier nor a wrap period later.
C19_WrapSafe ==
    /\ \A k \in 1..Len(samples) :
          /\ samples[k].at = RealStart(k)
          /\ samples[k].at < FLOW_MONITOR_MS
          /\ samples[k].elapsed = RealStamp(k)
    /\ pc = "monitor" => ElapsedNow = RealEnd
    /\ AfterLoop =>
          /\ RealEnd >= FLOW_MONITOR_MS
          /\ Len(samples) >= 1
          /\ \A j \in Chan : peak_time[j] <= RealStamp(Len(samples))

\* monitoring starts 200 ms before the counter wraps: the third sample is
\* taken after the wrap, stamped 0.2 s, and the loop takes all five samples
C19_Witness ==
    /\ Returned
    /\ start_ms = <<65535, 65336>>
    /\ Len(samples) = 5
    /\ samples[2].clk = <<65535, 65436>>
    /\ samples[3].clk = <<0, 0>>
    /\ samples[3].elapsed = 200
    /\ peak_time[CH_THERM_N] = 200

\* the bearing of channel j in degrees: N 0, E 90, S 180, W 270
Bearing(j) == 90 * j

\* C20: on the flow path the dominant channel's peak is not below that of
\* the opposite channel, and the direction is within 90 degrees of the
\* dominant channel's bearing; where opposite channels cancel and the
\* vector sum is zero, the direction is 0.
C20_TowardsDominant ==
    (Returned /\ result.direction_deg # -1) =>
        /\ peak_dt[max_idx] >= peak_dt[(max_idx + 2) % 4]
        /\ AngleGap(result.direction_deg, Bearing(max_idx)) <= 90
        /\ (peak_dt[CH_THERM_N] = peak_dt[CH_THERM_S] /\
            peak_dt[CH_THERM_E] = peak_dt[CH_THERM_W]) => result.direction_deg = 0

====
